---- MODULE Spec2Model ----
(***************************************************************************)
(* Webhook ingestion, event store, router and retry sweep of the Circle    *)
(* payments engine (src/app/services/webhook_service.py,                   *)
(* src/app/core/business/webhook_business.py and the business functions    *)
(* they call).                                                             *)
(*                                                                         *)
(* Scheduling: one asyncio event loop.  The store calls are synchronous    *)
(* SQLAlchemy calls inside coroutines, so a coroutine yields only at the   *)
(* outbound HTTP call of the forwarder and at asyncio.sleep.  One action   *)
(* of the model is everything a coroutine does between two such points.    *)
(*                                                                         *)
(* Reading of the source: three lexical slips of webhook_service.py        *)
(* (the unfinished import of line 10, `status "accepted"` of line 68 and   *)
(* `===` of line 102) and the misspelt `Datetime` of webhook_log.py are    *)
(* read as `status = "accepted"`, `==` and `DateTime`.  Everything else is *)
(* read as Python executes it, argument counts of calls included.          *)
(***************************************************************************)
EXTENDS Integers, Sequences, FiniteSets, TLC

VARIABLES
    cfg,          \* WebhookService fields read from get_webhook_config()
    events,       \* table webhook_events, in insertion order
    attempts,     \* table webhook_attempts, in insertion order (index = id)
    signatures,   \* table webhook_signatures
    logs,         \* table webhook_log
    transactions, \* table transactions: id -> row
    balances,     \* table balances, in insertion order
    handlerCalls, \* calls of update_transaction_status / update_wallet_balance
    tasks,        \* passes started by the gateway or by a resend
    sweeps,       \* the running retry_failed_webhooks() coroutines
    response,     \* the HTTP response of the latest POST /webhooks/circle
    verification, \* the latest call of verify_webhook_signature
    loops         \* schedule_webhook_retries and monitor_webhook_health

vars == <<cfg, events, attempts, signatures, logs, transactions, balances,
          handlerCalls, tasks, sweeps, response, verification, loops>>

----------------------------------------------------------------------------
(* Bounds of the model *)

MaxTasks == 2

\* longest payload and timestamp handed to verify_webhook_signature
MaxLen == 1

----------------------------------------------------------------------------
(* Python values *)

None == "None"

EmptyDict == <<>>

\* dict.get(key, default)
Get(d, k, default) == IF k \in DOMAIN d THEN d[k] ELSE default

\* truth value of a string or None
Truthy(v) == v /= None /\ v /= ""

\* datetime.fromisoformat(timestamp.replace('Z', '+00:00')) returns a value
ValidTimestamps == {"2025-01-01T00:00:00Z"}

IsoParsable(timestamp) == timestamp \in ValidTimestamps

----------------------------------------------------------------------------
(* Inputs *)

TxInner == [transactionId |-> "t1", status |-> "COMPLETED"]

BalInner ==
    [walletId |-> "w1",
     balances |-> <<[tokenId |-> "USDC", amount |-> "10", blockchain |-> "ETH"]>>]

TestInner == [message |-> "ping"]

Envelope(nid, type, inner, ts) ==
    [subscriptionId |-> "s1", notificationId |-> nid, notificationType |-> type,
     notification |-> inner, timestamp |-> ts, version |-> 2]

\* bodies of POST /webhooks/circle (WebhookPayload: every field present)
Payloads ==
    { Envelope("n1", "transaction.status.updated", TxInner, "2025-01-01T00:00:00Z"),
      Envelope("n2", "wallet.balance.updated", BalInner, "2025-01-01T00:00:00Z"),
      Envelope("n1", "webhooks.test", TestInner, "yesterday") }

\* the Circle-Signature and Circle-Timestamp headers of a request
Headers(signature, timestamp) == [signature |-> signature, timestamp |-> timestamp]

NoHeaders == Headers(None, None)

\* request metadata: X-Forwarded-For, X-Real-IP, socket peer, and the two
\* Circle headers (here a signature made under no secret)
Requests ==
    { [xff |-> <<"5.6.7.8", "1.2.3.4">>, real |-> "1.2.3.4", peer |-> "1.2.3.4",
       headers |-> NoHeaders],
      [xff |-> <<>>, real |-> "1.2.3.4", peer |-> "5.6.7.8", headers |-> NoHeaders],
      [xff |-> <<>>, real |-> None, peer |-> "1.2.3.4",
       headers |-> Headers("forged", "1735689600")] }

\* int(os.getenv("WEBHOOK_MAX_RETRIES", "3"))
DefaultMaxRetries == 3

BackendMirrorUrl == "http://backendmirror:8000/api/webhooks/circle"

Config(ips, subscribed, logging, url, retries) ==
    [allowed_ips |-> ips, subscribed_events |-> subscribed,
     webhook_logs_enabled |-> logging, backendmirror_url |-> url,
     max_retries |-> retries]

\* configurations: every option both set and unset
Configs ==
    { Config({}, {}, FALSE, None, DefaultMaxRetries),
      Config({"1.2.3.4"}, {"transaction.status.updated", "webhooks.test"},
             FALSE, BackendMirrorUrl, 2),
      Config({"1.2.3.4"}, {}, TRUE, None, 2),
      Config({}, {"wallet.balance.updated"}, TRUE, BackendMirrorUrl,
             DefaultMaxRetries) }

\* The rows of the webhook_log table.  resend_webhook reads them and no code
\* path writes one (see log_webhook): they are an input of the model.
StoredLogs ==
    << [notification_id |-> "n1", event_type |-> "transaction.status.updated",
        payload |-> Envelope("n1", "transaction.status.updated", TxInner,
                             "2025-01-01T00:00:00Z")] >>

\* store errors a step may meet: at the write of the event, at a domain
\* handler's commit, at the attempt write of process_webhook_notification, at
\* the attempt write of _process_event
Fault(e, h, a, b) ==
    [event |-> e, handler |-> h, attempt |-> a, attempt2 |-> b, mark |-> FALSE]

Faults ==
    { Fault(FALSE, FALSE, FALSE, FALSE),
      Fault(TRUE, FALSE, FALSE, FALSE),
      Fault(FALSE, TRUE, FALSE, FALSE),
      Fault(TRUE, FALSE, TRUE, FALSE),
      Fault(TRUE, FALSE, TRUE, TRUE) }

\* a store error at the flush of the sweep's own commit that marks a
\* retried row (retry_failed_webhooks line 294)
MarkFault == [Fault(FALSE, FALSE, FALSE, FALSE) EXCEPT !.mark = TRUE]

----------------------------------------------------------------------------
(* The store.  The operators below take and return the record S of the     *)
(* tables; a result [ok |-> FALSE] is a raised exception.                  *)

Store ==
    [events |-> events, attempts |-> attempts, signatures |-> signatures,
     transactions |-> transactions, balances |-> balances,
     handlerCalls |-> handlerCalls]

Raise(S) == [ok |-> FALSE, S |-> S]

Return(S) == [ok |-> TRUE, S |-> S]

\* db.query(WebhookEvent).filter(notification_id == ...).first(): the rows
\* found, at most the first one
event_of(S, notification_id) ==
    LET hits == {i \in DOMAIN S.events : S.events[i].notification_id = notification_id}
    IN  IF hits = {} THEN <<>>
        ELSE <<S.events[CHOOSE i \in hits : \A j \in hits : i <= j]>>

\* WebhookEvent.notification_id is unique=True: the INSERT of a second row
\* with the same notification_id raises IntegrityError
UniqueViolation_off(S, notification_id) == FALSE

UniqueViolation(S, notification_id) ==
    \E i \in DOMAIN S.events : S.events[i].notification_id = notification_id

save_webhook_event_overwrites(S, subscription_id, notification_id, notification_type, notification_data, timestamp, version, fault) ==
    LET row == [subscription_id |-> subscription_id,
                notification_id |-> notification_id,
                notification_type |-> notification_type,
                notification_data |-> notification_data,
                timestamp |-> timestamp,
                version |-> version]
        hits == {i \in DOMAIN S.events : S.events[i].notification_id = notification_id}
    IN  IF \/ ~IsoParsable(timestamp)
           \/ fault
           \/ subscription_id = None \/ notification_id = None
           \/ notification_type = None
        THEN Raise(S)
        ELSE IF hits /= {}
        THEN Return([S EXCEPT !.events = [i \in DOMAIN @ |-> IF i \in hits THEN row ELSE @[i]]])
        ELSE Return([S EXCEPT !.events = Append(@, row)])

save_webhook_event_swallows(S, subscription_id, notification_id, notification_type, notification_data, timestamp, version, fault) ==
    IF \/ ~IsoParsable(timestamp)
       \/ fault
       \/ subscription_id = None \/ notification_id = None
       \/ notification_type = None
       \/ UniqueViolation(S, notification_id)
    THEN Return(S)
    ELSE Return([S EXCEPT !.events = Append(@,
                    [subscription_id |-> subscription_id,
                     notification_id |-> notification_id,
                     notification_type |-> notification_type,
                     notification_data |-> notification_data,
                     timestamp |-> timestamp,
                     version |-> version])])

save_webhook_event(S, subscription_id, notification_id, notification_type, notification_data, timestamp, version, fault) ==
    IF \/ ~IsoParsable(timestamp)                        \* None.replace raises too
       \/ fault
       \/ subscription_id = None \/ notification_id = None
       \/ notification_type = None                       \* nullable=False
       \/ UniqueViolation(S, notification_id)
    THEN Raise(S)
    ELSE Return([S EXCEPT !.events = Append(@,
                    [subscription_id |-> subscription_id,
                     notification_id |-> notification_id,
                     notification_type |-> notification_type,
                     notification_data |-> notification_data,
                     timestamp |-> timestamp,
                     version |-> version])])

\* db.query(WebhookAttempt).filter(notification_id == ...).count()
attempt_count(S, notification_id) ==
    Cardinality({i \in DOMAIN S.attempts :
                    S.attempts[i].notification_id = notification_id})

attempt_number_stale(S, notification_id) ==
    IF attempt_count(S, notification_id) = 0 THEN 1
    ELSE attempt_count(S, notification_id)

attempt_number(S, notification_id) == attempt_count(S, notification_id) + 1

\* the row keeps the columns the sweep reads; error_message and payload are
\* written and never read back by the code modelled here
save_webhook_attempt(S, notification_id, status, fault) ==
    IF fault \/ notification_id = None
    THEN Raise(S)
    ELSE Return([S EXCEPT !.attempts = Append(@,
                    [notification_id |-> notification_id,
                     status |-> status,
                     attempt_number |-> attempt_number(S, notification_id)])])

update_transaction_status_upsert(S, transaction_id, status, notification_data, fault) ==
    IF fault THEN Raise(S)
    ELSE Return([S EXCEPT !.transactions =
            [id \in DOMAIN @ \cup {transaction_id} |->
                IF id = transaction_id
                THEN [status |-> status, tx_hash |-> None, confirmations |-> 0]
                ELSE @[id]]])

\* update_transaction_status: an id the table does not hold is logged
\* (line 86) and nothing is written
update_transaction_status(S, transaction_id, status, notification_data, fault) ==
    IF fault THEN Raise(S)
    ELSE IF transaction_id \in DOMAIN S.transactions
    THEN Return([S EXCEPT !.transactions[transaction_id] =
                    [status |-> status,
                     tx_hash |-> Get(notification_data, "txHash", @.tx_hash),
                     confirmations |->
                         Get(notification_data, "confirmations", @.confirmations)]])
    ELSE Return(S)

\* The loop body of update_wallet_balance for one entry.  The session is
\* made with autoflush=False (db/session.py line 13): the query sees the
\* rows the table held when the session was opened, the first `persistent`
\* ones, with the changes this call has made to them, and none of the rows
\* this call has added and not yet committed.
UpsertBalance(rows, persistent, wallet_id, balance_data) ==
    LET token_id == Get(balance_data, "tokenId", None)
        amount == Get(balance_data, "amount", None)
        blockchain == Get(balance_data, "blockchain", None)
        hits == {i \in 1..persistent :
                    /\ rows[i].wallet_id = wallet_id
                    /\ rows[i].token_id = token_id
                    /\ rows[i].blockchain = blockchain}
        first == CHOOSE i \in hits : \A j \in hits : i <= j
    IN  IF ~(Truthy(token_id) /\ Truthy(amount) /\ Truthy(blockchain))
        THEN rows
        ELSE IF hits /= {}
        THEN [rows EXCEPT ![first].balance_amount = amount]
        ELSE Append(rows, [wallet_id |-> wallet_id, token_id |-> token_id,
                           blockchain |-> blockchain, balance_amount |-> amount])

\* an element of the balances list that is not a dict: balance_data.get
\* raises AttributeError
NotADict == [not_a_dict |-> "str"]

IsDict(balance_data) == balance_data /= NotADict

\* the for loop of update_wallet_balance: the rows of the session after it,
\* and whether it ran to its end (an element that is not a dict raises)
RECURSIVE UpsertAll(_, _, _, _)
UpsertAll(rows, persistent, wallet_id, entries) ==
    IF entries = <<>> THEN [rows |-> rows, ok |-> TRUE]
    ELSE IF ~IsDict(Head(entries)) THEN [rows |-> rows, ok |-> FALSE]
    ELSE UpsertAll(UpsertBalance(rows, persistent, wallet_id, Head(entries)),
                   persistent, wallet_id, Tail(entries))

update_wallet_balance_commits_each(S, wallet_id, entries, fault) ==
    LET looped == UpsertAll(S.balances, Len(S.balances), wallet_id, entries)
    IN  IF fault \/ ~looped.ok THEN Raise([S EXCEPT !.balances = looped.rows])
        ELSE Return([S EXCEPT !.balances = looped.rows])

\* update_wallet_balance: one commit after the loop, no await before it; on
\* an exception in the loop or in the commit, db.rollback() drops what the
\* session added and changed
update_wallet_balance(S, wallet_id, entries, fault) ==
    LET looped == UpsertAll(S.balances, Len(S.balances), wallet_id, entries)
    IN  IF fault \/ ~looped.ok THEN Raise(S)
        ELSE Return([S EXCEPT !.balances = looped.rows])

Called(S, notification_id, handler) ==
    [S EXCEPT !.handlerCalls =
        Append(@, [notification_id |-> notification_id, handler |-> handler])]

handle_transaction_status_update(S, notification, notification_id, fault) ==
    LET transaction_id == Get(notification, "transactionId", None)
        status == Get(notification, "status", None)
    IN  IF Truthy(transaction_id) /\ Truthy(status)
        THEN update_transaction_status(
                 Called(S, notification_id, "update_transaction_status"),
                 transaction_id, status, notification, fault)
        ELSE Return(S)

handle_wallet_balance_update(S, notification, notification_id, fault) ==
    LET wallet_id == Get(notification, "walletId", None)
        entries == Get(notification, "balances", <<>>)
    IN  IF Truthy(wallet_id) /\ entries /= <<>>
        THEN update_wallet_balance(
                 Called(S, notification_id, "update_wallet_balance"),
                 wallet_id, entries, fault)
        ELSE Return(S)

route_webhook_notification_strict(S, notification_type, notification, notification_id, fault) ==
    IF notification_type = "transaction.status.updated"
    THEN handle_transaction_status_update(S, notification, notification_id, fault)
    ELSE IF notification_type = "wallet.balance.updated"
    THEN handle_wallet_balance_update(S, notification, notification_id, fault)
    ELSE IF notification_type \in {"wallet.created", "webhooks.test"}
    THEN Return(S)
    ELSE Raise(S)

route_webhook_notification(S, notification_type, notification, notification_id, fault) ==
    IF notification_type = "transaction.status.updated"
    THEN handle_transaction_status_update(S, notification, notification_id, fault)
    ELSE IF notification_type = "wallet.balance.updated"
    THEN handle_wallet_balance_update(S, notification, notification_id, fault)
    ELSE Return(S)      \* wallet.created, webhooks.test, any other type: log only

----------------------------------------------------------------------------
(* One processing pass *)

\* forward_to_backendmirror: True when it makes the outbound HTTP call.  It
\* catches every exception and returns nothing, so the caller never learns
\* the outcome of the call.
forward_to_backendmirror(notification_data) == Truthy(cfg.backendmirror_url)

\* the value forward_to_backendmirror returns when its call ended with `http`
\* (None when no call was made): every path ends without a return value
forward_to_backendmirror_result(backendmirror_url, http) == None

\* the value WebhookService.forward_to_backendmirror returns; no code calls
\* this method
WebhookService_forward_to_backendmirror(backendmirror_url, http) ==
    IF ~Truthy(backendmirror_url) THEN "False"
    ELSE IF http = "200" THEN "True"
    ELSE "False"                        \* other status, or exception caught

\* get_webhook_config() has no "webhook_secret" key
webhook_secret == None

\* json.dumps(notification_data, separators=(',', ':')): one text per dict
json_dumps(notification_data) == ToString(notification_data)

\* hmac.new(key, msg, hashlib.sha256).digest(), taken as free of collisions:
\* the digest names its key and its message
hmac_sha256(key, msg) == "hmac(" \o key \o "," \o msg \o ")"

\* base64.b64encode(digest).decode('utf-8')
b64encode(digest) == "b64(" \o digest \o ")"

\* strings hmac.compare_digest refuses with TypeError (not ASCII)
NonAscii == {"sig-U+00E9"}

verify_webhook_signature_payload_only(payload, signature, timestamp, secret) ==
    secret /= None /\ signature = b64encode(hmac_sha256(secret, payload))

\* verify_webhook_signature.  f"{timestamp}.{payload}" formats None as the
\* text None; None.encode and compare_digest on None or on a non-ASCII str
\* raise inside the try, and the except clause returns False.
verify_webhook_signature(payload, signature, timestamp, secret) ==
    LET signature_string == timestamp \o "." \o payload
        expected_signature == b64encode(hmac_sha256(secret, signature_string))
    IN  IF secret = None THEN FALSE
        ELSE IF signature = None \/ signature \in NonAscii THEN FALSE
        ELSE signature = expected_signature

save_webhook_signature(S, notification_id, signature, timestamp, verification_status, fault) ==
    IF \/ fault
       \/ notification_id = None
       \/ \E i \in DOMAIN S.signatures : S.signatures[i].notification_id = notification_id
    THEN Raise(S)
    ELSE Return([S EXCEPT !.signatures = Append(@,
                    [notification_id |-> notification_id,
                     signature |-> signature,
                     timestamp |-> timestamp,
                     verification_status |-> verification_status])])

\* The except branch of process_webhook_notification (lines 152-160): one
\* failed attempt under the pass's notification id, "unknown" when the dict
\* has no such key.  A store error here leaves the coroutine by exception.
PassFailed(S, notification_data, fault) ==
    LET att == save_webhook_attempt(S, Get(notification_data, "notificationId", "unknown"),
                                    "failed", fault)
    IN  IF att.ok
        THEN [S |-> att.S, status |-> "error", raised |-> FALSE, forward |-> FALSE]
        ELSE [S |-> S, status |-> "error", raised |-> TRUE, forward |-> FALSE]

\* The success return of process_webhook_notification (line 150): nothing is
\* written to webhook_attempts.
PassSucceeded(S, notification_data) ==
    [S |-> S, status |-> "success", raised |-> FALSE,
     forward |-> forward_to_backendmirror(notification_data)]

\* process_webhook_notification up to its outbound call.  F is the store
\* errors met.  Result: the store, the returned status, whether an exception
\* left the coroutine, and whether the pass is waiting for the forward call.
process_webhook_notification(S, notification_data, signature, timestamp, F) ==
    LET subscription_id == Get(notification_data, "subscriptionId", None)
        notification_id == Get(notification_data, "notificationId", None)
        notification_type == Get(notification_data, "notificationType", None)
        notification == Get(notification_data, "notification", EmptyDict)
        notification_timestamp == Get(notification_data, "timestamp", None)
        version == Get(notification_data, "version", 1)
        checked == Truthy(signature) /\ Truthy(timestamp) /\ Truthy(webhook_secret)
        is_valid == verify_webhook_signature(json_dumps(notification_data), signature,
                                             timestamp, webhook_secret)
        sig == IF checked
               THEN save_webhook_signature(S, notification_id, signature, timestamp,
                        IF is_valid THEN "verified" ELSE "failed", F.event)
               ELSE Return(S)
        saved == save_webhook_event(sig.S, subscription_id, notification_id,
                     notification_type, notification, notification_timestamp,
                     version, F.event)
        routed == route_webhook_notification(saved.S, notification_type, notification,
                      notification_id, F.handler)
    IN  IF ~sig.ok THEN PassFailed(S, notification_data, F.attempt)
        ELSE IF checked /\ ~is_valid
        THEN [S |-> sig.S, status |-> "error", raised |-> FALSE, forward |-> FALSE]
        ELSE IF ~saved.ok THEN PassFailed(sig.S, notification_data, F.attempt)
        ELSE IF ~routed.ok
        THEN PassFailed(routed.S, notification_data, F.attempt)
        ELSE PassSucceeded(routed.S, notification_data)

----------------------------------------------------------------------------
(* WebhookService *)

\* _log_webhook: WebhookLog(notification_id=..., event=..., processed_at=...)
\* names a keyword the mapped class does not have; the TypeError is caught
\* and logged, and no row is added.
log_webhook(L, notification_id, event_type, payload, status, error_message) == L

\* A coroutine that has returned: its locals are gone, the record keeps how
\* it ended (the local `status`, whether an exception left it, the outcome
\* of its outbound call)
Finished(t, status, escaped, http) ==
    [payload |-> EmptyDict, event_type |-> None, notification_id |-> None,
     headers |-> NoHeaders,
     origin |-> t.origin, redelivery |-> t.redelivery, pc |-> "done",
     status |-> status, escaped |-> escaped, http |-> http]

\* _process_event up to the forward call of its pass.  t0 is the task;
\* `redelivery` notes whether its notification_id was stored when it began.
process_event(S, t0, F) ==
    LET t == [t0 EXCEPT !.redelivery = event_of(S, t0.notification_id) /= <<>>]
        r == process_webhook_notification(S, t.payload, None, None, F)
        notification_id == IF Truthy(t.notification_id) THEN t.notification_id
                           ELSE "unknown"
        att == save_webhook_attempt(r.S, notification_id, "failed", F.attempt2)
    IN  IF r.raised
        THEN [S |-> att.S, t |-> Finished(t, "failed", ~att.ok, None)]
        ELSE IF r.forward
        THEN [S |-> r.S, t |-> [t EXCEPT !.pc = "forwarding"]]
        ELSE [S |-> r.S,
              t |-> Finished(t, IF r.status = "success" THEN "processed" ELSE "failed",
                             FALSE, None)]

\* `headers` notes the Circle headers of the request that created the task:
\* process_webhook reads them (lines 46-47) and hands them to nothing
NewTask(payload, event_type, notification_id, origin, headers) ==
    [payload |-> payload, event_type |-> event_type,
     notification_id |-> notification_id, headers |-> headers,
     origin |-> origin, redelivery |-> FALSE,
     pc |-> "scheduled", status |-> "processed", escaped |-> FALSE, http |-> None]

\* _get_client_ip
get_client_ip(request) ==
    IF request.xff /= <<>> THEN Head(request.xff)
    ELSE IF Truthy(request.real) THEN request.real
    ELSE IF request.peer /= None THEN request.peer
    ELSE "unknown"

\* _is_ip_allowed
is_ip_allowed(ip) == IF cfg.allowed_ips = {} THEN TRUE ELSE ip \in cfg.allowed_ips

\* the event filter of process_webhook, line 61
is_subscribed(event_type) ==
    ~(cfg.subscribed_events /= {} /\ event_type \notin cfg.subscribed_events)

admission_open(client_ip, event_type) == "accepted"

admission_filter_first(client_ip, event_type) ==
    IF ~is_subscribed(event_type) THEN "ignored"
    ELSE IF ~is_ip_allowed(client_ip) THEN "rejected"
    ELSE "accepted"

\* the try block of process_webhook, lines 44-69: the local `status`
admission(client_ip, event_type) ==
    IF ~is_ip_allowed(client_ip) THEN "rejected"
    ELSE IF ~is_subscribed(event_type) THEN "ignored"
    ELSE "accepted"

except_clause_saves(S, payload) ==
    [S |-> save_webhook_attempt(S, Get(payload, "notificationId", "unknown"),
                                "failed", FALSE).S,
     exit |-> [kind |-> "raise", value |-> "HTTPException(500)"]]

\* the except clause of process_webhook, lines 82-92: save_webhook_attempt is
\* called with five positional arguments and takes four, so the call raises
\* TypeError before the function runs and line 92 is not reached
except_clause(S, payload) ==
    [S |-> S, exit |-> [kind |-> "raise", value |-> "TypeError"]]

\* the finally clause of process_webhook, lines 93-95: _log_webhook is called
\* without its error_message argument, so the call raises TypeError, which
\* replaces the pending return value or exception
finally_clause(exit) ==
    IF cfg.webhook_logs_enabled THEN [kind |-> "raise", value |-> "TypeError"]
    ELSE exit

\* receive_circle_webhook: `except Exception` turns whatever is raised,
\* HTTPException included, into HTTPException(500)
receive_circle_webhook(exit) ==
    IF exit.kind = "return" THEN [code |-> 200, status |-> exit.value]
    ELSE [code |-> 500, status |-> "error"]

\* process_webhook: the store after it, the task it created, how it exits
process_webhook(S, request, payload) ==
    LET notification_id == Get(payload, "notificationId", None)
        event_type == Get(payload, "notificationType", None)
        client_ip == get_client_ip(request)
        status == admission(client_ip, event_type)
        tried == IF status = "rejected"
                 THEN [kind |-> "raise", value |-> "HTTPException(403)"]
                 ELSE [kind |-> "return", value |-> status]
        caught == IF tried.kind = "raise" THEN except_clause(S, payload)
                  ELSE [S |-> S, exit |-> tried]
    IN  [S |-> caught.S,
         created |-> IF status = "accepted"
                     THEN <<NewTask(payload, event_type, notification_id, "gateway",
                                    request.headers)>>
                     ELSE <<>>,
         client_ip |-> client_ip,
         status |-> status,
         exit |-> finally_clause(caught.exit)]

----------------------------------------------------------------------------
(* The retry sweep *)

\* webhook_config.get("max_retries", 3), read at the start of each sweep
max_retries == cfg.max_retries

candidate_upto(S, i) ==
    S.attempts[i].status = "failed" /\ S.attempts[i].attempt_number <= max_retries

\* the filter of retry_failed_webhooks, lines 276-279
candidate(S, i) ==
    S.attempts[i].status = "failed" /\ S.attempts[i].attempt_number < max_retries

\* the ids of the selected rows, in id order
failed_attempts(S) ==
    SelectSeq([i \in 1..Len(S.attempts) |-> i], LAMBDA i : candidate(S, i))

rerun_from_router(S, event, F) ==
    LET routed == route_webhook_notification(S, event.notification_type,
                      event.notification_data, event.notification_id, F.handler)
    IN  IF routed.ok THEN PassSucceeded(routed.S, event.notification_data)
        ELSE PassFailed(routed.S, [notificationId |-> event.notification_id],
                        F.attempt)

\* line 290: process_webhook_notification(event.notification_data), the
\* stored body of the notification in place of the envelope
rerun(S, event, F) ==
    process_webhook_notification(S, event.notification_data, None, None, F)

\* The for loop of retry_failed_webhooks from the head of `queue` up to its
\* next await: items without a stored event are skipped, the first item
\* with one is re-run and marked, and the sweep sleeps.  A re-run that gets
\* to its outbound call leaves the sweep waiting inside that call.  When
\* the flush of the marking commit fails, the session is left inactive: the
\* commit of the item's except clause raises in its turn, the outer except
\* clause ends the sweep, and `queue` keeps the rows the loop did not get to.
RECURSIVE retry_loop(_, _, _)
retry_loop(S, queue, F) ==
    IF queue = <<>> THEN [S |-> S, queue |-> <<>>, pc |-> "idle"]
    ELSE LET id == Head(queue)
             event == event_of(S, S.attempts[id].notification_id)
             r == rerun(S, event[1], F)
         IN  IF event = <<>> THEN retry_loop(S, Tail(queue), F)
             ELSE IF r.raised
             THEN retry_loop([r.S EXCEPT !.attempts[id].status = "failed"],
                             Tail(queue), F)
             ELSE IF r.forward
             THEN [S |-> r.S, queue |-> queue, pc |-> "forwarding"]
             ELSE IF F.mark
             THEN [S |-> r.S, queue |-> Tail(queue), pc |-> "idle"]
             ELSE [S |-> [r.S EXCEPT !.attempts[id].status = "success"],
                   queue |-> Tail(queue), pc |-> "sleeping"]

----------------------------------------------------------------------------
(* Actions *)

SetStore(S) ==
    /\ events' = S.events
    /\ attempts' = S.attempts
    /\ signatures' = S.signatures
    /\ transactions' = S.transactions
    /\ balances' = S.balances
    /\ handlerCalls' = S.handlerCalls

\* POST /webhooks/circle, for requests and bodies of the given sets; at
\* most `limit` background tasks are created in a run
Receive(requests, payloads, limit) ==
    \E request \in requests, payload \in payloads :
        LET r == process_webhook(Store, request, payload)
            answer == receive_circle_webhook(r.exit)
        IN  /\ r.created /= <<>> => Len(tasks) < limit
            /\ SetStore(r.S)
            /\ tasks' = tasks \o r.created
            /\ response' = [client_ip |-> r.client_ip,
                            event_type |-> Get(payload, "notificationType", None),
                            admission |-> r.status,
                            code |-> answer.code, status |-> answer.status]
            /\ UNCHANGED <<cfg, logs, sweeps, verification, loops>>

ReceiveCircleWebhook == Receive(Requests, Payloads, MaxTasks)

\* the task created by asyncio.create_task runs _process_event
ProcessEvent ==
    \E i \in DOMAIN tasks, F \in Faults :
        LET r == process_event(Store, tasks[i], F)
        IN  /\ tasks[i].pc = "scheduled"
            /\ SetStore(r.S)
            /\ tasks' = [tasks EXCEPT ![i] = r.t]
            /\ logs' = log_webhook(logs, r.t.notification_id, r.t.event_type,
                                   r.t.payload, r.t.status, None)
            /\ UNCHANGED <<cfg, sweeps, response, verification, loops>>

\* the outbound POST of forward_to_backendmirror returns, times out or fails
ForwardReturns ==
    \E i \in DOMAIN tasks, http \in {"200", "503", "timeout"} :
        /\ tasks[i].pc = "forwarding"
        /\ tasks' = [tasks EXCEPT ![i] = Finished(@, "processed", FALSE, http)]
        /\ logs' = log_webhook(logs, tasks[i].notification_id, tasks[i].event_type,
                               tasks[i].payload, tasks[i].status, None)
        /\ UNCHANGED <<cfg, events, attempts, signatures, transactions, balances,
                       handlerCalls, sweeps, response, verification, loops>>

\* GET /webhook-logs/resend/{log_id}
ResendWebhook ==
    \E l \in DOMAIN logs, F \in Faults :
        LET r == process_event(Store,
                     NewTask(logs[l].payload, logs[l].event_type,
                             logs[l].notification_id, "resend", NoHeaders), F)
        IN  /\ Len(tasks) < MaxTasks
            /\ SetStore(r.S)
            /\ tasks' = Append(tasks, r.t)
            /\ logs' = log_webhook(logs, r.t.notification_id, r.t.event_type,
                                   r.t.payload, r.t.status, None)
            /\ UNCHANGED <<cfg, sweeps, response, verification, loops>>

\* sweep w has run up to its next await with result r, `selected` being
\* the rows it read at its start
Swept(w, r, selected) ==
    /\ SetStore(r.S)
    /\ sweeps' = [sweeps EXCEPT ![w] =
            [pc |-> r.pc, queue |-> r.queue,
             selected |-> IF r.pc = "idle" THEN <<>> ELSE selected]]

\* retry_failed_webhooks() is entered: by schedule_webhook_retries after its
\* sleep, or by POST /webhooks/retry
SweepStartsWith(faults) ==
    \E w \in DOMAIN sweeps, F \in faults :
        /\ sweeps[w].pc = "idle"
        /\ Swept(w, retry_loop(Store, failed_attempts(Store), F),
                 failed_attempts(Store))
        /\ UNCHANGED <<cfg, logs, tasks, response, verification, loops>>

SweepStarts == SweepStartsWith(Faults)

\* asyncio.sleep(retry_delay) of a sweep returns
SweepWakesWith(faults) ==
    \E w \in DOMAIN sweeps, F \in faults :
        /\ sweeps[w].pc = "sleeping"
        /\ Swept(w, retry_loop(Store, sweeps[w].queue, F), sweeps[w].selected)
        /\ UNCHANGED <<cfg, logs, tasks, response, verification, loops>>

SweepWakes == SweepWakesWith(Faults)

NoResponse ==
    [client_ip |-> None, event_type |-> None,
     admission |-> None, code |-> 0, status |-> None]

\* verify_webhook_signature has not been called
NoVerification ==
    [payload |-> None, signature |-> None, timestamp |-> None, secret |-> None,
     called |-> FALSE, result |-> FALSE]

\* a loop created by startup_event: in its first asyncio.sleep; `last` is
\* how the latest iteration ended, and `turn` changes whenever the retry
\* loop starts a sweep
LoopStarted == [pc |-> "sleeping", turn |-> FALSE, last |-> None]

\* the state when the application has started, with the given sweep
\* coroutines not yet in a sweep
InitWith(configs, sweepers) ==
    /\ cfg \in configs
    /\ logs = StoredLogs
    /\ events = <<>>
    /\ attempts = <<>>
    /\ signatures = <<>>
    /\ transactions = [t \in {"t1"} |->
                          [status |-> "PENDING", tx_hash |-> None, confirmations |-> 0]]
    /\ balances = <<>>
    /\ handlerCalls = <<>>
    /\ tasks = <<>>
    /\ sweeps = [w \in sweepers |->
                    [pc |-> "idle", queue |-> <<>>, selected |-> <<>>]]
    /\ response = NoResponse
    /\ verification = NoVerification
    /\ loops = [retry |-> LoopStarted, health |-> LoopStarted]

Init == InitWith(Configs, {"scheduled"})

Next ==
    \/ ReceiveCircleWebhook
    \/ ProcessEvent
    \/ ForwardReturns
    \/ ResendWebhook
    \/ SweepStarts
    \/ SweepWakes

Spec == Init /\ [][Next]_vars

----------------------------------------------------------------------------
(* verify_webhook_signature on its own: no reachable call path of the      *)
(* application calls it (webhook_secret is None), so its inputs are drawn  *)
(* here, one call to a run.                                                *)

\* the texts of at most n characters over {a, .}
RECURSIVE Strings(_)
Strings(n) ==
    IF n = 0 THEN {""}
    ELSE LET shorter == Strings(n - 1)
         IN  shorter \cup {s \o c : s \in shorter, c \in {"a", "."}}

Secrets == {"k1", "k2"}

\* signatures offered: every genuine one, a made-up one, one that is not
\* ASCII, and none
SignatureValues ==
    {b64encode(hmac_sha256(k, t \o "." \o p)) :
        k \in Secrets, t \in Strings(MaxLen), p \in Strings(MaxLen)}
      \cup NonAscii \cup {"forged", None}

VerifyWebhookSignature ==
    \E payload \in Strings(MaxLen), timestamp \in Strings(MaxLen),
       signature \in SignatureValues, secret \in Secrets \cup {None} :
        /\ ~verification.called
        /\ verification' =
              [payload |-> payload, signature |-> signature,
               timestamp |-> timestamp, secret |-> secret, called |-> TRUE,
               result |-> verify_webhook_signature(payload, signature, timestamp,
                                                   secret)]
        /\ UNCHANGED <<cfg, events, attempts, signatures, logs, transactions,
                       balances, handlerCalls, tasks, sweeps, response, loops>>

VerifySpec ==
    InitWith({Config({}, {}, FALSE, None, DefaultMaxRetries)}, {"scheduled"})
        /\ [][VerifyWebhookSignature]_vars

----------------------------------------------------------------------------
(* The router and the domain handlers on notifications they do not apply:  *)
(* a type outside the four routed ones, bodies without the fields a        *)
(* handler needs, a transaction the store does not hold.  Every request is *)
(* admitted and the downstream URL is set.                                 *)

KnownTypes ==
    {"transaction.status.updated", "wallet.balance.updated", "wallet.created",
     "webhooks.test"}

HandlerPayloads ==
    { Envelope("n1", "transaction.status.updated", TxInner, "2025-01-01T00:00:00Z"),
      Envelope("n3", "payment.settled", TestInner, "2025-01-01T00:00:00Z"),
      Envelope("n4", "transaction.status.updated", [transactionId |-> "t1"],
               "2025-01-01T00:00:00Z"),
      Envelope("n5", "transaction.status.updated", [status |-> "COMPLETED"],
               "2025-01-01T00:00:00Z"),
      Envelope("n6", "wallet.balance.updated", [walletId |-> "w1", balances |-> <<>>],
               "2025-01-01T00:00:00Z"),
      Envelope("n7", "wallet.balance.updated", [balances |-> BalInner.balances],
               "2025-01-01T00:00:00Z"),
      Envelope("n8", "transaction.status.updated",
               [transactionId |-> "t9", status |-> "COMPLETED"],
               "2025-01-01T00:00:00Z") }

HandlerRequests ==
    { [xff |-> <<>>, real |-> None, peer |-> "1.2.3.4", headers |-> NoHeaders] }

HandlerReceive == Receive(HandlerRequests, HandlerPayloads, MaxTasks)

HandlerInit ==
    InitWith({Config({}, {}, FALSE, BackendMirrorUrl, DefaultMaxRetries)}, {"scheduled"})

HandlerNext ==
    \/ HandlerReceive
    \/ ProcessEvent
    \/ ForwardReturns
    \/ SweepStarts
    \/ SweepWakes

HandlerSpec == HandlerInit /\ [][HandlerNext]_vars

----------------------------------------------------------------------------
(* Two sweeps at once: the scheduled one and one started by POST           *)
(* /webhooks/retry, over the deliveries and re-deliveries of one           *)
(* notification.                                                           *)

MaxDeliveries == 3

TwoSweepPayloads ==
    { Envelope("n2", "wallet.balance.updated", BalInner, "2025-01-01T00:00:00Z") }

TwoSweepReceive == Receive(HandlerRequests, TwoSweepPayloads, MaxDeliveries)

TwoSweepInit ==
    InitWith({Config({}, {}, FALSE, BackendMirrorUrl, DefaultMaxRetries)},
             {"scheduled", "manual"})

TwoSweepNext ==
    \/ TwoSweepReceive
    \/ ProcessEvent
    \/ ForwardReturns
    \/ SweepStarts
    \/ SweepWakes

TwoSweepSpec == TwoSweepInit /\ [][TwoSweepNext]_vars

----------------------------------------------------------------------------
(* Balance notifications: one entry, two entries for one (token,           *)
(* blockchain), and a later amount for the same key.                       *)

BalanceEntry(amount) == [tokenId |-> "USDC", amount |-> amount, blockchain |-> "ETH"]

BalancePayloads ==
    { Envelope("n2", "wallet.balance.updated", BalInner, "2025-01-01T00:00:00Z"),
      Envelope("n9", "wallet.balance.updated",
               [walletId |-> "w1",
                balances |-> <<BalanceEntry("10"), BalanceEntry("20")>>],
               "2025-01-01T00:00:00Z"),
      Envelope("n10", "wallet.balance.updated",
               [walletId |-> "w1", balances |-> <<BalanceEntry("30")>>],
               "2025-01-01T00:00:00Z") }

BalanceReceive == Receive(HandlerRequests, BalancePayloads, MaxTasks)

BalanceNext ==
    \/ BalanceReceive
    \/ ProcessEvent
    \/ ForwardReturns
    \/ SweepStarts
    \/ SweepWakes

BalanceSpec == HandlerInit /\ [][BalanceNext]_vars

----------------------------------------------------------------------------
(* The two periodic loops of startup_event, with the scheduled sweep run   *)
(* inside schedule_webhook_retries.  Fairness: a timer of asyncio.sleep    *)
(* fires, the GET of the health check is bounded by the client timeout,    *)
(* and the event loop resumes a coroutine that is ready.                   *)

after_iteration_stops(outcome) ==
    IF outcome \in {"success", "healthy"} THEN "sleeping" ELSE "stopped"

\* `while True:` with the whole body inside try / except Exception (lines
\* 236-241 and 245-252): whatever the iteration returned or raised, the
\* loop goes back to asyncio.sleep
after_iteration(outcome) == "sleeping"

\* What WebhookService.retry_failed_webhooks returns.  `outer` is a store
\* error outside the for loop of the sweep: at SessionLocal() the except
\* clause logs it and db.close() of the finally clause raises
\* UnboundLocalError, which the service method reports as an error; at the
\* query it is logged and the sweep returns normally.
WebhookService_retry_failed_webhooks(outer) ==
    IF outer = "session" THEN "error" ELSE "success"

\* get_webhook_health: the status it reports does not depend on the answer
\* of the downstream (that goes to services.backendmirror_connectivity);
\* an exception inside its try makes it "unhealthy"
get_webhook_health(fails, http) == IF fails THEN "unhealthy" ELSE "healthy"

IterationEnds(loop, outcome) ==
    [loop EXCEPT !.pc = after_iteration(outcome), !.last = outcome]

\* schedule_webhook_retries: asyncio.sleep(300) returns and the sweep runs
\* up to its first await
ScheduleWebhookRetries ==
    \E F \in Faults, outer \in {"none", "query", "session"} :
        LET r == retry_loop(Store, failed_attempts(Store), F)
            begun == [loops.retry EXCEPT !.turn = ~@]
        IN  /\ loops.retry.pc = "sleeping"
            /\ IF outer = "none"
               THEN /\ Swept("scheduled", r, failed_attempts(Store))
                    /\ loops' = [loops EXCEPT !.retry =
                          IF r.pc = "idle"
                          THEN IterationEnds(begun,
                                   WebhookService_retry_failed_webhooks(outer))
                          ELSE [begun EXCEPT !.pc = "sweeping"]]
               ELSE /\ loops' = [loops EXCEPT !.retry =
                          IterationEnds(begun,
                              WebhookService_retry_failed_webhooks(outer))]
                    /\ UNCHANGED <<events, attempts, signatures, transactions,
                                   balances, handlerCalls, sweeps>>
            /\ UNCHANGED <<cfg, logs, tasks, response, verification>>

\* asyncio.sleep(retry_delay) of the scheduled sweep returns
ScheduledSweepWakes ==
    \E F \in Faults :
        LET r == retry_loop(Store, sweeps["scheduled"].queue, F)
        IN  /\ loops.retry.pc = "sweeping"
            /\ sweeps["scheduled"].pc = "sleeping"
            /\ Swept("scheduled", r, sweeps["scheduled"].selected)
            /\ loops' = [loops EXCEPT !.retry =
                  IF r.pc = "idle"
                  THEN IterationEnds(@, WebhookService_retry_failed_webhooks("none"))
                  ELSE @]
            /\ UNCHANGED <<cfg, logs, tasks, response, verification>>

\* monitor_webhook_health: asyncio.sleep(60) returns and get_webhook_health
\* runs up to its GET, or to its end when no downstream URL is set
MonitorWebhookHealth ==
    \E fails \in BOOLEAN :
        LET begun == loops.health
        IN  /\ loops.health.pc = "sleeping"
            /\ loops' = [loops EXCEPT !.health =
                  IF ~fails /\ Truthy(cfg.backendmirror_url)
                  THEN [begun EXCEPT !.pc = "checking"]
                  ELSE IterationEnds(begun, get_webhook_health(fails, None))]
            /\ UNCHANGED <<cfg, events, attempts, signatures, logs, transactions,
                           balances, handlerCalls, tasks, sweeps, response,
                           verification>>

\* the GET of the health check returns, times out or fails
HealthCheckReturns ==
    \E http \in {"200", "503", "timeout"} :
        /\ loops.health.pc = "checking"
        /\ loops' = [loops EXCEPT !.health =
              IterationEnds(@, get_webhook_health(FALSE, http))]
        /\ UNCHANGED <<cfg, events, attempts, signatures, logs, transactions,
                       balances, handlerCalls, tasks, sweeps, response,
                       verification>>

LoopReceive == Receive(HandlerRequests, TwoSweepPayloads, MaxTasks)

LoopInit ==
    InitWith({Config({}, {}, FALSE, BackendMirrorUrl, DefaultMaxRetries)},
             {"scheduled"})

LoopNext ==
    \/ LoopReceive
    \/ ProcessEvent
    \/ ForwardReturns
    \/ ScheduleWebhookRetries
    \/ ScheduledSweepWakes
    \/ MonitorWebhookHealth
    \/ HealthCheckReturns

LoopSpec ==
    /\ LoopInit
    /\ [][LoopNext]_vars
    /\ WF_vars(ScheduleWebhookRetries)
    /\ WF_vars(ScheduledSweepWakes)
    /\ WF_vars(MonitorWebhookHealth)
    /\ WF_vars(HealthCheckReturns)

----------------------------------------------------------------------------
(* One notification_id delivered with two different bodies, resent from    *)
(* the log and retried.                                                    *)

EventPayloads ==
    { Envelope("n1", "transaction.status.updated", TxInner, "2025-01-01T00:00:00Z"),
      Envelope("n1", "wallet.balance.updated", BalInner, "2025-01-01T00:00:00Z") }

EventReceive == Receive(HandlerRequests, EventPayloads, MaxTasks)

EventNext ==
    \/ EventReceive
    \/ ProcessEvent
    \/ ForwardReturns
    \/ ResendWebhook
    \/ SweepStarts
    \/ SweepWakes

EventSpec == HandlerInit /\ [][EventNext]_vars

----------------------------------------------------------------------------
(* Sweeps over several failed rows of a stored event, with store errors at *)
(* the commit that marks a retried row.                                    *)

MaxAttempts == 5

SweepFaults == Faults \cup {MarkFault}

ManyRowsReceive == Receive(HandlerRequests, TwoSweepPayloads, MaxDeliveries)

\* a sweep is entered while the attempts table has room for its rows
FaultySweepStarts == SweepStartsWith(SweepFaults) /\ Len(attempts') <= MaxAttempts

FaultySweepWakes == SweepWakesWith(SweepFaults) /\ Len(attempts') <= MaxAttempts

SweepNext ==
    \/ ManyRowsReceive
    \/ ProcessEvent
    \/ ForwardReturns
    \/ FaultySweepStarts
    \/ FaultySweepWakes

SweepSpec == HandlerInit /\ [][SweepNext]_vars

----------------------------------------------------------------------------
(* The two domain handlers applied to notification bodies, one after       *)
(* another and repeatedly, as the router calls them.                       *)

MaxApplications == 3

Applied(id, body) == [id |-> id, body |-> body]

ApplyTransactions ==
    { Applied("a1", TxInner),
      Applied("a2", [transactionId |-> "t1", status |-> "CONFIRMED",
                     txHash |-> "0xabc", confirmations |-> 3]),
      Applied("a3", [transactionId |-> "t1", status |-> "QUEUED"]),
      Applied("a4", [transactionId |-> "t9", status |-> "FAILED"]) }

ApplyBalances ==
    { Applied("b1", BalInner),
      Applied("b2", [walletId |-> "w1",
                     balances |-> <<BalanceEntry("10"), BalanceEntry("20")>>]),
      Applied("b3", [walletId |-> "w1", balances |-> <<BalanceEntry("30")>>]),
      Applied("b4", [walletId |-> "w1",
                     balances |-> <<[tokenId |-> "EURC", amount |-> "5",
                                     blockchain |-> "ETH"], NotADict>>]),
      Applied("b5", [walletId |-> "w1",
                     balances |-> <<[tokenId |-> "EURC", amount |-> "",
                                     blockchain |-> "ETH"],
                                    [tokenId |-> "EURC", amount |-> "7",
                                     blockchain |-> "SOL"]>>]) }

\* route_webhook_notification calls handle_transaction_status_update
ApplyTransactionStatus ==
    \E n \in ApplyTransactions :
        /\ Len(handlerCalls) < MaxApplications
        /\ SetStore(handle_transaction_status_update(Store, n.body, n.id, FALSE).S)
        /\ UNCHANGED <<cfg, logs, tasks, sweeps, response, verification, loops>>

\* route_webhook_notification calls handle_wallet_balance_update
ApplyWalletBalance ==
    \E n \in ApplyBalances :
        /\ Len(handlerCalls) < MaxApplications
        /\ SetStore(handle_wallet_balance_update(Store, n.body, n.id, FALSE).S)
        /\ UNCHANGED <<cfg, logs, tasks, sweeps, response, verification, loops>>

ApplyNext ==
    \/ ApplyTransactionStatus
    \/ ApplyWalletBalance

ApplySpec == HandlerInit /\ [][ApplyNext]_vars

----------------------------------------------------------------------------
(* Properties *)

\* a row of webhook_events carries this notification_id
Stored(rows, notification_id) ==
    \E k \in DOMAIN rows : rows[k].notification_id = notification_id

\* this step is a POST /webhooks/circle answered with a response
Answered == response' /= response

\* in this step the pass of task i runs from its start
PassRuns(i) == tasks[i].pc = "scheduled" /\ tasks'[i].pc /= "scheduled"

\* in this step the pass of task i returns
PassReturns(i) == tasks[i].pc /= "done" /\ tasks'[i].pc = "done"

Tables == <<events, attempts, signatures, logs, transactions, balances, handlerCalls>>

\* C1: in every reachable state the event store holds at most one
\* NotificationEvent row per notification_id.
C1_OneEventPerNotificationId ==
    \A i, j \in DOMAIN events :
        events[i].notification_id = events[j].notification_id => i = j

\* C1 witness: an id is stored, a later pass for the same id has failed and
\* a retry sweep has re-run the pipeline.
C1_Witness ==
    /\ Stored(events, "n1")
    /\ \E k \in DOMAIN attempts : attempts[k].notification_id = "n1"
    /\ \E k \in DOMAIN attempts : attempts[k].notification_id = "unknown"
    /\ \E i \in DOMAIN tasks : tasks[i].redelivery

\* C2 (as claimed): a pass for a notification_id whose event is already
\* stored does not end with an error outcome and records no failed
\* DeliveryAttempt.  (Stated for runs of gateway deliveries alone.)
C2_DuplicateIsNoError ==
    [][\A i \in DOMAIN tasks :
          (/\ PassRuns(i)
           /\ Stored(events, tasks[i].notification_id)
           /\ \A j \in DOMAIN tasks : tasks[j].origin = "gateway")
              => (tasks'[i].status /= "failed" /\ attempts' = attempts)]_vars

\* C3: when a notification whose id is already stored arrives again through
\* the gateway, its pass creates no second event and invokes no
\* state-mutating domain handler.
C3_DuplicateHasNoEffect ==
    [][\A i \in DOMAIN tasks :
          (PassRuns(i) /\ tasks[i].origin = "gateway"
                       /\ Stored(events, tasks[i].notification_id))
              => /\ events' = events
                 /\ handlerCalls' = handlerCalls
                 /\ transactions' = transactions
                 /\ balances' = balances]_vars

\* C3 witness: the pass of a re-delivered notification has returned while
\* the handler of its first delivery had run.
C3_Witness ==
    /\ \E i \in DOMAIN tasks :
          tasks[i].origin = "gateway" /\ tasks[i].redelivery /\ tasks[i].pc = "done"
    /\ Len(handlerCalls) = 1
    /\ Len(events) = 1

\* C4: the DeliveryAttempt rows of each notification_id carry the attempt
\* numbers 1..k in insertion order, k the number of rows of that id: each row
\* has (count of earlier rows of the id) + 1, without gaps or repeats.
C4_AttemptNumbers ==
    \A i \in DOMAIN attempts :
        attempts[i].attempt_number =
            Cardinality({j \in 1..i :
                attempts[j].notification_id = attempts[i].notification_id})

\* C4 witness: an id has two attempts, another id has one.
C4_Witness ==
    /\ \E i, j \in DOMAIN attempts :
          /\ i < j
          /\ attempts[i].notification_id = attempts[j].notification_id
    /\ \E i, j \in DOMAIN attempts :
          attempts[i].notification_id /= attempts[j].notification_id

\* C5: the rows a retry sweep selects are exactly the DeliveryAttempt rows
\* that, when the sweep starts, have outcome failed and an attempt_number
\* strictly below max_retries.
C5_SweepCandidates ==
    [][\A w \in DOMAIN sweeps :
          (sweeps[w].pc = "idle" /\ sweeps'[w].pc = "sleeping")
              => {sweeps'[w].selected[k] : k \in DOMAIN sweeps'[w].selected}
                   = {i \in DOMAIN attempts :
                         /\ attempts[i].status = "failed"
                         /\ attempts[i].attempt_number < cfg.max_retries}]_vars

\* C5 witness: a sweep has selected a row while a failed row at the ceiling
\* exists and is not among the selected.
C5_Witness ==
    \E w \in DOMAIN sweeps :
        /\ sweeps[w].pc = "sleeping"
        /\ sweeps[w].selected /= <<>>
        /\ \E i \in DOMAIN attempts :
              /\ attempts[i].status = "failed"
              /\ attempts[i].attempt_number >= cfg.max_retries
              /\ \A k \in DOMAIN sweeps[w].selected : sweeps[w].selected[k] /= i

\* C6: with an IP allow-list configured, a request whose resolved address is
\* not in it leaves every table, the tasks and the sweeps unchanged; a
\* request whose resolved address is in it goes on to the event filter.
C6_RejectionChangesNothing ==
    [][Answered =>
          /\ (cfg.allowed_ips /= {} /\ response'.client_ip \notin cfg.allowed_ips)
                => UNCHANGED <<Tables, tasks, sweeps>>
          /\ (response'.client_ip \in cfg.allowed_ips)
                => response'.admission \in {"ignored", "accepted"}]_vars

\* C6 witness: a request from an address outside the configured list was
\* answered after an earlier request had been accepted and processed.
C6_Witness ==
    /\ cfg.allowed_ips /= {}
    /\ response.client_ip \notin cfg.allowed_ips
    /\ response.admission = "rejected"
    /\ \E i \in DOMAIN tasks : tasks[i].origin = "gateway" /\ tasks[i].pc = "done"

\* C7 (as claimed): a request rejected by the IP allow-list is answered with
\* HTTP 403, not with HTTP 500.
C7_RejectionIs403 ==
    (cfg.allowed_ips /= {} /\ response.client_ip \notin cfg.allowed_ips
        /\ response.client_ip /= None)
        => response.code = 403

\* C8 (as claimed): with an event-type allow-list configured, an admitted
\* request whose type is not in it is answered 200 'ignored', and nothing is
\* persisted, scheduled or handled.
C8_UnsubscribedIsIgnored ==
    [][(/\ Answered
        /\ is_ip_allowed(response'.client_ip)
        /\ cfg.subscribed_events /= {}
        /\ response'.event_type \notin cfg.subscribed_events)
          => /\ response'.code = 200
             /\ response'.status = "ignored"
             /\ UNCHANGED <<Tables, tasks, sweeps>>]_vars

\* C9 (as claimed): every request that passes the IP and subscription checks
\* is answered 200 'accepted', and no later step of a background pass changes
\* the response given.
C9_AcceptedAtOnce ==
    [][/\ (/\ Answered
           /\ is_ip_allowed(response'.client_ip)
           /\ is_subscribed(response'.event_type))
             => (response'.code = 200 /\ response'.status = "accepted")
       /\ (\E i \in DOMAIN tasks : tasks'[i] /= tasks[i])
             => response' = response]_vars

\* C10 (as claimed): every pass that completes successfully appends exactly
\* one DeliveryAttempt with outcome success for its notification_id.
\* (Stated for the passes of gateway deliveries.)
C10_SuccessIsRecorded ==
    [][\A i \in DOMAIN tasks :
          (PassReturns(i) /\ tasks'[i].status = "processed"
                          /\ tasks[i].origin = "gateway")
              => /\ Len(attempts') = Len(attempts) + 1
                 /\ attempts'[Len(attempts')].status = "success"]_vars

\* every pass so far was started by the gateway
GatewayOnly == \A j \in DOMAIN tasks : tasks[j].origin = "gateway"

\* the rows this step appended to webhook_attempts
NewAttempts == {k \in DOMAIN attempts' : k > Len(attempts)}

\* in this step sweep w went through items of its list
SweepStep(w) == sweeps'[w] /= sweeps[w]

\* the ids of the rows sweep w went through in this step: the part of its
\* list that is no longer ahead of it
Consumed(w) ==
    LET before == IF sweeps[w].pc = "idle" THEN sweeps'[w].selected
                  ELSE sweeps[w].queue
    IN  {before[k] : k \in 1..(Len(before) - Len(sweeps'[w].queue))}

\* the row sweep w re-ran last in this step, before its sleep
Retried(w) ==
    sweeps'[w].selected[Len(sweeps'[w].selected) - Len(sweeps'[w].queue)]

\* C11 (as claimed): every pass that fails, at whichever stage (forwarding
\* included), leaves exactly one DeliveryAttempt with outcome failed under
\* the pass's notification_id.  (Stated for gateway passes whose own attempt
\* writes met no store error.)
C11_FailedPassLeavesOneAttempt ==
    [][\A i \in DOMAIN tasks :
          (/\ PassReturns(i)
           /\ tasks[i].origin = "gateway"
           /\ ~tasks'[i].escaped
           /\ (tasks'[i].status = "failed" \/ tasks'[i].http \in {"503", "timeout"}))
              => /\ Cardinality(NewAttempts) = 1
                 /\ \A k \in NewAttempts :
                       /\ attempts'[k].status = "failed"
                       /\ attempts'[k].notification_id = tasks[i].notification_id]_vars

\* C12 (as claimed): every row a sweep selected has the pipeline re-run for
\* its notification_id during the sweep, the rows of notifications whose
\* event was never stored included: going through such a row leaves a trace
\* of a pass for that id (its event stored, or an attempt recorded under it).
\* (Stated for runs of gateway deliveries alone.)
C12_SweepRerunsEveryCandidate ==
    [][\A w \in DOMAIN sweeps :
          (SweepStep(w) /\ GatewayOnly) =>
              \A id \in Consumed(w) :
                  ~Stored(events, attempts[id].notification_id)
                      => \/ Stored(events', attempts[id].notification_id)
                         \/ \E k \in NewAttempts :
                               attempts'[k].notification_id
                                   = attempts[id].notification_id]_vars

\* C13 (as claimed): an item re-run by a sweep results in exactly one new
\* DeliveryAttempt under the notification_id of the row retried, with the
\* next attempt number of that id.  (Stated for runs of gateway deliveries
\* alone.)
C13_RetryRecordsAttemptUnderSameId ==
    [][\A w \in DOMAIN sweeps :
          (SweepStep(w) /\ sweeps'[w].pc = "sleeping" /\ GatewayOnly)
              => /\ Cardinality(NewAttempts) = 1
                 /\ \A k \in NewAttempts :
                       /\ attempts'[k].notification_id
                             = attempts[Retried(w)].notification_id
                       /\ attempts'[k].attempt_number
                             = attempt_count(Store, attempts[Retried(w)].notification_id)
                                 + 1]_vars

\* C14 (as claimed): when the event of a notification is stored and its
\* handler failed, a re-delivery or a retry re-applies the handler.  As a
\* final result: once the event of n2 is stored, a re-delivery of n2 has
\* returned and a sweep has re-run a failed row of n2, the balance of n2 is
\* in the balances table.
C14_RecoveryReappliesHandler ==
    (/\ Len(events) = 1
     /\ events[1].notification_id = "n2"
     /\ GatewayOnly
     /\ \E i \in DOMAIN tasks :
           /\ tasks[i].origin = "gateway"
           /\ tasks[i].redelivery
           /\ tasks[i].pc = "done"
           /\ ~tasks[i].escaped
     /\ \E k \in DOMAIN attempts :
           attempts[k].notification_id = "n2" /\ attempts[k].status = "success")
        => balances /= <<>>

\* a failed row of this notification_id stands at the retry ceiling
AtCeiling(notification_id) ==
    \E j \in DOMAIN attempts :
        /\ attempts[j].notification_id = notification_id
        /\ attempts[j].status = "failed"
        /\ attempts[j].attempt_number = cfg.max_retries

\* C15 (as claimed): once a notification_id has a failed DeliveryAttempt
\* with attempt_number equal to max_retries, no sweep re-runs the pipeline
\* for a row of that id: the rows a sweep re-runs (those whose event is
\* stored) belong to ids that are not at the ceiling.  (Stated for runs of
\* gateway deliveries alone.)
C15_NoRetryAtCeiling ==
    [][\A w \in DOMAIN sweeps :
          (SweepStep(w) /\ GatewayOnly) =>
              \A id \in Consumed(w) :
                  Stored(events, attempts[id].notification_id)
                      => ~AtCeiling(attempts[id].notification_id)]_vars

\* C16 (as claimed): when the downstream call of a pass ends with a status
\* other than 200, a timeout or a connection failure, a failed
\* DeliveryAttempt of the pass's notification_id is recorded.
C16_ForwardFailureIsRecorded ==
    [][\A i \in DOMAIN tasks :
          (/\ tasks[i].pc = "forwarding"
           /\ tasks'[i].pc = "done"
           /\ tasks'[i].http /= "200")
              => \E k \in NewAttempts :
                    /\ attempts'[k].status = "failed"
                    /\ attempts'[k].notification_id = tasks[i].notification_id]_vars

\* a return value that reports success
ReportsSuccess(result) == result = "True"

\* C17 (as claimed): forward reports success exactly when the downstream
\* answered 200 or no downstream URL is configured, and failure otherwise.
\* Checked on the outcome of each pass that reached its forward, for the
\* function the pass calls and for the method of WebhookService.
C17_ForwardReportsOutcome ==
    \A i \in DOMAIN tasks :
        (tasks[i].pc = "done" /\ tasks[i].status = "processed"
                              /\ tasks[i].origin = "gateway")
            => LET url == cfg.backendmirror_url
                   http == tasks[i].http
                   succeeded == ~Truthy(url) \/ http = "200"
               IN  /\ ReportsSuccess(forward_to_backendmirror_result(url, http))
                         <=> succeeded
                   /\ ReportsSuccess(WebhookService_forward_to_backendmirror(url, http))
                         <=> succeeded

C20_SignatureRecordPerSignedRequest ==
    [][/\ \A i \in DOMAIN tasks :
             (/\ PassReturns(i)
              /\ tasks[i].origin = "gateway"
              /\ tasks[i].headers.signature /= None)
                 => \E k \in DOMAIN signatures' :
                       /\ signatures'[k].notification_id = tasks[i].notification_id
                       /\ signatures'[k].verification_status
                             \in {"verified", "failed", "skipped"}
       /\ \A k \in DOMAIN signatures : signatures'[k] = signatures[k]]_vars

\* C26 (as claimed): with request logging enabled, every request answered
\* appends exactly one entry to the log, and the answer is the one the
\* admission decided: 200 for an accepted or ignored request.
C26_OneLogEntryPerRequest ==
    [][(Answered /\ cfg.webhook_logs_enabled)
          => /\ Len(logs') = Len(logs) + 1
             /\ response'.admission \in {"accepted", "ignored"}
                   => response'.code = 200]_vars

\* C27: in every reachable state each call of a domain handler was made for
\* a notification_id whose event is stored.
C27_HandlerOnlyAfterEventStored ==
    \A k \in DOMAIN handlerCalls : Stored(events, handlerCalls[k].notification_id)

\* C27 witness: a handler has run for one notification while the pass of
\* another notification failed before its event was stored.
C27_Witness ==
    /\ handlerCalls /= <<>>
    /\ \E k \in DOMAIN attempts :
          /\ attempts[k].notification_id \in {"n1", "n2"}
          /\ ~Stored(events, attempts[k].notification_id)

\* C28 (as claimed): at most one pass is active per notification_id: while
\* a pass waits for its downstream call, no other pass runs for the same
\* notification_id.
C28_OneActivePassPerId ==
    [][\A i, j \in DOMAIN tasks :
          (i /= j /\ PassRuns(i) /\ tasks[j].pc = "forwarding")
              => tasks[i].notification_id /= tasks[j].notification_id]_vars

\* in this step the pass of task i stores its event, and so goes on to the
\* router
Routed(i) ==
    /\ PassRuns(i)
    /\ ~Stored(events, tasks[i].notification_id)
    /\ Stored(events', tasks[i].notification_id)

\* C21: a pass that routes a notification of a type outside the four known
\* ones changes no transaction and no balance, calls no domain handler,
\* records no failed attempt and goes on as a successful pass.
C21_UnknownTypeIsSuccessfulNoOp ==
    [][\A i \in DOMAIN tasks :
          (Routed(i) /\ tasks[i].event_type \notin KnownTypes)
              => /\ transactions' = transactions
                 /\ balances' = balances
                 /\ handlerCalls' = handlerCalls
                 /\ attempts' = attempts
                 /\ tasks'[i].status = "processed"
                 /\ ~tasks'[i].escaped]_vars

\* C21 witness: the pass of the notification of unknown type has returned
\* as processed, its event is stored and the transaction is as it was.
C21_Witness ==
    /\ Len(tasks) = 1
    /\ tasks[1].pc = "done"
    /\ tasks[1].status = "processed"
    /\ Stored(events, "n3")
    /\ transactions["t1"].status = "PENDING"
    /\ attempts = <<>>

\* the body of a routed notification lacks a field its handler requires
MissingFields(payload) ==
    LET n == payload.notification
    IN  \/ /\ payload.notificationType = "transaction.status.updated"
           /\ ~(Truthy(Get(n, "transactionId", None)) /\ Truthy(Get(n, "status", None)))
        \/ /\ payload.notificationType = "wallet.balance.updated"
           /\ ~(Truthy(Get(n, "walletId", None)) /\ Get(n, "balances", <<>>) /= <<>>)

\* C22 (as claimed): a pass that routes a transaction notification without
\* transactionId or status, or a balance notification without walletId or
\* with an empty balance list, mutates no domain state and raises no error;
\* and when it returns, one DeliveryAttempt with outcome success has been
\* appended.
C22_MissingFieldsIsRecordedSuccess ==
    [][\A i \in DOMAIN tasks :
          /\ (Routed(i) /\ MissingFields(tasks[i].payload))
                => /\ transactions' = transactions
                   /\ balances' = balances
                   /\ tasks'[i].status = "processed"
                   /\ ~tasks'[i].escaped
          /\ (/\ PassReturns(i)
              /\ tasks'[i].status = "processed"
              /\ MissingFields(tasks[i].payload))
                => /\ Len(attempts') = Len(attempts) + 1
                   /\ attempts'[Len(attempts')].status = "success"]_vars

\* C23: no step enlarges or shrinks the set of transaction ids, and a pass
\* that routes a transaction notification for an id the store does not hold
\* changes no transaction.
C23_NoTransactionCreatedByWebhook ==
    [][/\ DOMAIN transactions' = DOMAIN transactions
       /\ \A i \in DOMAIN tasks :
             (/\ Routed(i)
              /\ tasks[i].event_type = "transaction.status.updated"
              /\ Get(tasks[i].payload.notification, "transactionId", None)
                    \notin DOMAIN transactions)
                 => transactions' = transactions]_vars

\* C23 witness: update_transaction_status has been called for the
\* notification that names transaction t9, and the store holds t1 alone.
C23_Witness ==
    /\ \E k \in DOMAIN handlerCalls :
          /\ handlerCalls[k].notification_id = "n8"
          /\ handlerCalls[k].handler = "update_transaction_status"
    /\ Stored(events, "n8")
    /\ DOMAIN transactions = {"t1"}

\* sweep w is waiting inside a re-run it has begun
InRerun(w) == sweeps[w].pc = "forwarding"

C30_AttemptNumbersAreDistinct ==
    \A i, j \in DOMAIN attempts :
        (/\ i /= j
         /\ attempts[i].notification_id = attempts[j].notification_id)
            => attempts[i].attempt_number /= attempts[j].attempt_number

\* C30 witness: both sweeps are under way, each after the other has
\* recorded an attempt, and the gateway tasks have recorded two attempts of
\* their notification.
C30_Witness ==
    /\ \A w \in DOMAIN sweeps : sweeps[w].pc = "sleeping"
    /\ \E i, j \in DOMAIN attempts :
          /\ i < j
          /\ attempts[i].notification_id = "unknown"
          /\ attempts[j].notification_id = "unknown"
    /\ \E i, j \in DOMAIN attempts :
          /\ i < j
          /\ attempts[i].notification_id = "n2"
          /\ attempts[j].notification_id = "n2"
    /\ \E i \in DOMAIN tasks : tasks[i].pc = "forwarding"

\* balance row or balance entry: its key within a wallet
SameKey(row, wallet_id, entry) ==
    /\ row.wallet_id = wallet_id
    /\ row.token_id = entry.tokenId
    /\ row.blockchain = entry.blockchain

\* the amount of the last entry of the list that has the key of `entry`
LastAmount(entries, entry) ==
    LET same == {k \in DOMAIN entries :
                    /\ entries[k].tokenId = entry.tokenId
                    /\ entries[k].blockchain = entry.blockchain}
    IN  entries[CHOOSE k \in same : \A l \in same : l <= k].amount

\* C24 (as claimed): after every step the balances table holds at most one
\* row per (wallet, token, blockchain), and when a pass has applied a
\* balance notification, the one row of each key it names carries the
\* amount of the last entry applied for that key.
C24_OneBalanceRowPerKey ==
    [][/\ \A a, b \in DOMAIN balances' :
             (/\ balances'[a].wallet_id = balances'[b].wallet_id
              /\ balances'[a].token_id = balances'[b].token_id
              /\ balances'[a].blockchain = balances'[b].blockchain) => a = b
       /\ \A i \in DOMAIN tasks :
             (/\ Routed(i)
              /\ tasks[i].event_type = "wallet.balance.updated"
              /\ tasks'[i].status = "processed")
                 => LET n == tasks[i].payload.notification
                    IN  \A e \in DOMAIN n.balances :
                            \E k \in DOMAIN balances' :
                                /\ SameKey(balances'[k], n.walletId, n.balances[e])
                                /\ balances'[k].balance_amount
                                      = LastAmount(n.balances, n.balances[e])]_vars

\* C25: neither loop ever stops, whatever its iterations return or raise,
\* and under fair scheduling a further retry sweep is always eventually
\* started.
C25_LoopsGoOn ==
    /\ [](loops.retry.pc /= "stopped" /\ loops.health.pc /= "stopped")
    /\ []<>loops.retry.turn
    /\ []<>~loops.retry.turn

\* C25 witness: after an iteration of the retry loop that ended with an
\* error and a health check that reported unhealthy, the next sweep is
\* under way.
C25_Witness ==
    /\ loops.retry.last = "error"
    /\ loops.retry.pc = "sweeping"
    /\ loops.health.last = "unhealthy"
    /\ loops.health.pc = "sleeping"

\* C31 (as claimed): a sweep sets the row it retried to success only if the
\* re-run succeeded: when the re-run ended in error, and so recorded a
\* failed attempt, the retried row is not success afterwards.  (Stated for
\* runs of gateway deliveries alone.)
C31_RetriedRowSuccessOnlyIfRerunSucceeded ==
    [][\A w \in DOMAIN sweeps :
          (/\ SweepStep(w)
           /\ sweeps'[w].pc = "sleeping"
           /\ GatewayOnly
           /\ \E k \in NewAttempts : attempts'[k].status = "failed")
              => attempts'[Retried(w)].status /= "success"]_vars

\* C32: no step changes or removes a row of webhook_events: every row keeps
\* its place, its type, payload, timestamp and version.
C32_EventsAreNeverChanged ==
    [][\A k \in DOMAIN events :
          k \in DOMAIN events' /\ events'[k] = events[k]]_vars

\* C32 witness: the event of n1 is stored as first delivered, a later
\* delivery of n1 has failed as a duplicate, and a sweep has re-run the
\* stored event and marked the failed row.
C32_Witness ==
    /\ Len(events) = 1
    /\ events[1].notification_id = "n1"
    /\ events[1].notification_type = "wallet.balance.updated"
    /\ \E i \in DOMAIN tasks :
          tasks[i].origin = "resend" /\ tasks[i].redelivery /\ tasks[i].pc = "done"
    /\ \E k \in DOMAIN attempts :
          attempts[k].notification_id = "n1" /\ attempts[k].status = "success"
    /\ \E k \in DOMAIN attempts : attempts[k].notification_id = "unknown"

\* a step in which a domain handler is called
Applies == Len(handlerCalls') = Len(handlerCalls) + 1

\* the call a step makes
NewCall == handlerCalls'[Len(handlerCalls')]

\* a step that applies the notification the step before it applied
AppliesAgain ==
    /\ Applies
    /\ Len(handlerCalls) >= 1
    /\ NewCall = handlerCalls[Len(handlerCalls)]

\* C33 (as claimed): applying the notification that was applied last once
\* more leaves the transactions and the balances as they are.
C33_ReapplyingChangesNothing ==
    [][AppliesAgain => transactions' = transactions /\ balances' = balances]_vars

\* the values the statistics of transaction_business count
TransactionStatuses == {"PENDING", "CONFIRMED", "COMPLETED", "FAILED"}

\* C34 (as claimed): the status of every stored transaction is one of the
\* fixed set, whatever notification arrives.
C34_StatusStaysInFixedSet ==
    \A id \in DOMAIN transactions : transactions[id].status \in TransactionStatuses

\* the body of the balance notification that was applied under this id
BalanceApplied(id) == (CHOOSE n \in ApplyBalances : n.id = id).body

\* an entry update_wallet_balance upserts
ValidEntry(entry) ==
    /\ IsDict(entry)
    /\ Truthy(Get(entry, "tokenId", None))
    /\ Truthy(Get(entry, "amount", None))
    /\ Truthy(Get(entry, "blockchain", None))

\* the amount of the last valid entry of the list that has the key of `entry`
LastValidAmount(entries, entry) ==
    LET same == {k \in DOMAIN entries :
                    /\ ValidEntry(entries[k])
                    /\ entries[k].tokenId = entry.tokenId
                    /\ entries[k].blockchain = entry.blockchain}
    IN  entries[CHOOSE k \in same : \A l \in same : l <= k].amount

\* every valid entry of the list has a row that carries the amount the
\* list gives its key last
AllUpserted(rows, wallet_id, entries) ==
    \A k \in DOMAIN entries :
        ValidEntry(entries[k]) =>
            \E r \in DOMAIN rows :
                /\ SameKey(rows[r], wallet_id, entries[k])
                /\ rows[r].balance_amount = LastValidAmount(entries, entries[k])

\* C39: a call of update_wallet_balance leaves the balances table either
\* with every valid entry of the notification upserted or exactly as it
\* was; it is left as it was when the call raises part-way through the
\* list.
C39_BalanceNotificationIsAtomic ==
    [][(Applies /\ NewCall.handler = "update_wallet_balance") =>
          LET n == BalanceApplied(NewCall.notification_id)
          IN  IF \E k \in DOMAIN n.balances : ~IsDict(n.balances[k])
              THEN balances' = balances
              ELSE AllUpserted(balances', n.walletId, n.balances)]_vars

\* C39 witness: a list whose first entry is valid and whose second is not
\* a dict has been applied after a list that was upserted, and the table
\* holds the rows of the earlier list alone.
C39_Witness ==
    /\ Len(handlerCalls) = 2
    /\ handlerCalls[1].notification_id = "b5"
    /\ handlerCalls[2].notification_id = "b4"
    /\ Len(balances) = 1
    /\ balances[1].blockchain = "SOL"

\* the address of the answered request is on the allow-list, or there is none
AddressAllowed == cfg.allowed_ips = {} \/ response'.client_ip \in cfg.allowed_ips

\* the type of the answered request is subscribed, or there is no filter
TypeSubscribed ==
    cfg.subscribed_events = {} \/ response'.event_type \in cfg.subscribed_events

\* C35: a request from an address off the allow-list is rejected whatever
\* its type, a request from an allowed address with an unsubscribed type is
\* ignored, and a background task is created by a request only when both
\* checks passed.
C35_AdmissionOrder ==
    [][/\ Answered =>
            /\ response'.admission =
                  IF ~AddressAllowed THEN "rejected"
                  ELSE IF ~TypeSubscribed THEN "ignored"
                  ELSE "accepted"
            /\ response'.admission /= "accepted" => tasks' = tasks
       /\ \A i \in DOMAIN tasks' \ DOMAIN tasks :
             tasks'[i].origin = "gateway" =>
                 /\ response'.admission = "accepted"
                 /\ AddressAllowed
                 /\ TypeSubscribed]_vars

\* C35 witness: a request from an address off the allow-list with a type
\* that is not subscribed has been answered as rejected.
C35_Witness ==
    /\ cfg.allowed_ips /= {}
    /\ response.client_ip /= None
    /\ response.client_ip \notin cfg.allowed_ips
    /\ cfg.subscribed_events /= {}
    /\ response.event_type \notin cfg.subscribed_events
    /\ response.admission = "rejected"

\* the ids the request log holds: resend_webhook processes them whatever
\* the gateway answered
LoggedIds == {logs[l].notification_id : l \in DOMAIN logs}

\* the type of the notification a handler call was made for
CalledType(call) ==
    IF call.handler = "update_transaction_status" THEN "transaction.status.updated"
    ELSE "wallet.balance.updated"

ForwardFails(i) ==
    /\ tasks[i].pc = "forwarding"
    /\ tasks'[i].pc = "done"
    /\ tasks'[i].http /= "200"

\* C37 (as claimed): a pass that fails at its downstream call changes the
\* store by its DeliveryAttempt record and by nothing else: one failed row
\* of its notification_id is added, and events, signatures, transactions,
\* balances and the earlier attempt rows are as before.
C37_ForwardFailureWritesAttemptOnly ==
    [][\A i \in DOMAIN tasks :
          ForwardFails(i) =>
              /\ UNCHANGED <<events, signatures, transactions, balances, handlerCalls>>
              /\ Len(attempts') = Len(attempts) + 1
              /\ SubSeq(attempts', 1, Len(attempts)) = attempts
              /\ attempts'[Len(attempts')].status = "failed"
              /\ attempts'[Len(attempts')].notification_id = tasks[i].notification_id]_vars

\* q is what is left of p after some of its first items
IsSuffix(q, p) ==
    /\ Len(q) <= Len(p)
    /\ q = SubSeq(p, Len(p) - Len(q) + 1, Len(p))

\* C38 (as claimed): a sweep goes through the rows it read at its start
\* and through no others: what is ahead of it after a step is a part of
\* what was ahead before, so rows added by its own re-runs never join the
\* list, and each time its sleep returns the list is shorter or the sweep
\* has ended; and a sweep that has ended has left none of its rows that
\* have a stored event unretried, whatever errors its items met.
C38_SweepVisitsEveryRowOnce ==
    [][\A w \in DOMAIN sweeps :
          /\ (SweepStep(w) /\ sweeps[w].pc = "sleeping") =>
                /\ IsSuffix(sweeps'[w].queue, sweeps[w].queue)
                /\ sweeps'[w].pc = "idle" \/ Len(sweeps'[w].queue) < Len(sweeps[w].queue)
          /\ (SweepStep(w) /\ sweeps[w].pc = "idle") =>
                IsSuffix(sweeps'[w].queue, failed_attempts(Store))
          /\ sweeps'[w].pc = "idle" =>
                \A k \in DOMAIN sweeps'[w].queue :
                    ~Stored(events', attempts'[sweeps'[w].queue[k]].notification_id)]_vars

====
